---- MODULE Spec2Model ----
(***************************************************************************)
(* A model of the zkTree proof aggregator: the leaf circuit and the node   *)
(* circuit (compile, fill, proof), the leaf and node proof constructors,   *)
(* the tree driver ZkTree::new with its per-level parallel tasks, and      *)
(* ZkTree::verify.                                                         *)
(*                                                                         *)
(* The proving backend is not part of the repository.  It is modelled      *)
(* symbolically: a field element is a record, the sponge hash and the      *)
(* circuit digest are injective term constructors, and a proof carries its *)
(* public inputs and one bit saying whether the backend verifier accepts   *)
(* it.  A prover call succeeds exactly when every constraint the circuit's *)
(* compile step injected is satisfied by the witness its fill step wrote.  *)
(* Which circuits get equal common data is decided by the backend's sizing *)
(* and is kept as a choice of the build (common_data).                     *)
(*                                                                         *)
(* Spec runs ZkTree::new and then verify; SpecVerify runs verify on trees  *)
(* with any root; SpecCircuit calls the methods of one circuit object;     *)
(* SpecChildren calls NodeProof::new_from_children on any two children;    *)
(* SpecFair is ZkTree::new on batches of valid shape under a scheduler     *)
(* that keeps running the caller and the thread pool.                      *)
(***************************************************************************)
EXTENDS Integers, Sequences, FiniteSets, TLC

VARIABLES
    debug_assertions,   \* build configuration: debug_assert! is compiled in
    common_data,        \* build configuration: how far the backend's common
                        \* circuit data tells circuits apart (see Build)
    circuit,            \* the circuit object of the circuit-level calls
    call_result,        \* what the last circuit-level call returned
    user_proofs,        \* ZkTree::new argument / ZkTree.user_proofs
    leaf_proofs,        \* ZkTree::new local, then ZkTree.leaf_proofs
    node_proofs,        \* ZkTree::new local, then ZkTree.node_proofs
    zktree_height,      \* ZkTree::new local
    height,             \* loop variable of: for height in 0..zktree_height
    start_child_index,  \* ZkTree::new local
    node_proofs_len,    \* ZkTree::new local
    pc,                 \* position of the driver
    tasks,              \* the parallel tasks of the level being built, each with
                        \* its start index, its outcome, the compiles it made
    saved_error,        \* the error slot of the parallel collect
    result,             \* what ZkTree::new returned: none, Ok, Err, Panic
    verify_result,      \* what ZkTree::verify returned: none, Ok, Err, Panic
    leaf_builds,        \* number of leaf-circuit compile_and_build calls so far
    node_builds         \* number of node-circuit compile_and_build calls so far

vars == <<debug_assertions, common_data, circuit, call_result, user_proofs,
          leaf_proofs, node_proofs, zktree_height,
          height, start_child_index, node_proofs_len, pc, tasks, saved_error,
          result, verify_result, leaf_builds, node_builds>>

(***************************************************************************)
(* Bounds of the model.                                                    *)
(***************************************************************************)
\* ZkTree::new is tried on every batch of 0..MaxBatch user proofs.
MaxBatch == 4
\* ... and on batches of 2^h user proofs for h up to MaxHeight.
MaxHeight == 3

(***************************************************************************)
(* Program constants.                                                      *)
(***************************************************************************)
\* Number of field elements of a HashOut.
NUM_HASH_OUT_ELTS == 4
\* Number of public inputs of a leaf or node proof: two HashOuts.
NUM_PUBLIC_INPUTS == 8

(***************************************************************************)
(* Option and Result values.                                               *)
(***************************************************************************)
None == [some |-> FALSE]
Some(x) == [some |-> TRUE, val |-> x]

Ok(x) == [tag |-> "Ok", val |-> x]
Err(msg) == [tag |-> "Err", msg |-> msg]
Panic(msg) == [tag |-> "Panic", msg |-> msg]

(***************************************************************************)
(* Backend: field elements and the algebraic hash.                         *)
(*   [v |-> n]            a plain field value                              *)
(*   [h |-> p, i |-> k]   k-th output element of the sponge run on p       *)
(*   [d |-> c, i |-> k]   k-th element of the digest of circuit c          *)
(* The sponge input is stored packed: four consecutive elements that are   *)
(* the whole output of one sponge (or one whole digest) are kept as one    *)
(* item [hh |-> p] (or [dd |-> c]).  Packing is injective, so two sponge   *)
(* outputs are equal exactly when their inputs are.                        *)
(***************************************************************************)
Fe(n) == [v |-> n]
ZERO == Fe(0)

IsBlockStart(s) ==
    /\ Len(s) >= NUM_HASH_OUT_ELTS
    /\ "i" \in DOMAIN s[1]
    /\ s[1].i = 1
    /\ \A k \in 2..NUM_HASH_OUT_ELTS : s[k] = [s[1] EXCEPT !.i = k]

BlockOf(e) == IF "h" \in DOMAIN e THEN [hh |-> e.h] ELSE [dd |-> e.d]

RECURSIVE Pack(_)
Pack(s) ==
    IF s = <<>> THEN <<>>
    ELSE IF IsBlockStart(s)
         THEN <<BlockOf(s[1])>> \o Pack(SubSeq(s, NUM_HASH_OUT_ELTS + 1, Len(s)))
         ELSE <<s[1]>> \o Pack(Tail(s))

\* Hasher::hash_no_pad: the sponge over the whole input.
hash_no_pad(s) ==
    LET p == Pack(s) IN [k \in 1..NUM_HASH_OUT_ELTS |-> [h |-> p, i |-> k]]

\* HashOut::from_partial: the input padded with zeros to a HashOut.
from_partial(s) ==
    [k \in 1..NUM_HASH_OUT_ELTS |-> IF k <= Len(s) THEN s[k] ELSE ZERO]

\* Hasher::hash_or_noop: identity (padded) up to 4 elements, sponge beyond.
hash_or_noop(s) ==
    IF Len(s) <= NUM_HASH_OUT_ELTS THEN from_partial(s) ELSE hash_no_pad(s)

\* Hasher::two_to_one, the Merkle-tree compression: one permutation of the
\* state holding left then right, which is the sponge over left ++ right.
two_to_one(l, r) == hash_no_pad(l \o r)

\* The verifier digest of a built circuit: one digest per circuit structure.
Digest(c) == [k \in 1..NUM_HASH_OUT_ELTS |-> [d |-> c, i |-> k]]

\* Vec<Vec<F>>::concat
RECURSIVE flatten(_)
flatten(inputs) ==
    IF inputs = <<>> THEN <<>> ELSE Head(inputs) \o flatten(Tail(inputs))

\* CircuitData::verify: the backend accepts the proof for this circuit.
BackendVerify(proof_data) ==
    /\ proof_data.proof_with_pis.valid
    /\ Len(proof_data.proof_with_pis.public_inputs)
         = proof_data.circuit_data.common.num_public_inputs

(***************************************************************************)
(* UserProof (components/user_proof.rs) and its Proof capability.          *)
(***************************************************************************)
\* ProofData { proof_with_pis, circuit_data }
ProofData(proof_with_pis, circuit_data) ==
    [proof_with_pis |-> proof_with_pis, circuit_data |-> circuit_data]

\* UserProof::new
UserProof_new(inputs, user_circuit_hash, proof_data) ==
    [ty |-> "user", proof_data |-> proof_data, inputs |-> inputs,
     user_circuit_hash |-> user_circuit_hash]

UserProof_circuit_hash(p) == p.user_circuit_hash
UserProof_input_hash(p) == hash_or_noop(flatten(p.inputs))
UserProof_circuit_verifier_digest(p) == p.user_circuit_hash
UserProof_user_public_inputs(p) == p.inputs

(***************************************************************************)
(* LeafProof and NodeProof: the Proof capability.                          *)
(***************************************************************************)
LeafProof_circuit_verifier_digest(p) == p.proof_data.circuit_data.digest
\* The leaf circuit hash with the user's declared hash first.
LeafProof_circuit_hash_Swapped(p) ==
    hash_or_noop(p.user_circuit_hash \o LeafProof_circuit_verifier_digest(p))

LeafProof_circuit_hash(p) ==
    hash_or_noop(LeafProof_circuit_verifier_digest(p) \o p.user_circuit_hash)
LeafProof_input_hash(p) == p.hash_user_public_inputs

NodeProof_circuit_hash(p) == p.circuit_hash
NodeProof_input_hash(p) == p.input_hash
NodeProof_circuit_verifier_digest(p) == p.proof_data.circuit_data.digest

\* trait Proof, dispatched on the implementing type
input_hash(p) ==
    CASE p.ty = "user" -> UserProof_input_hash(p)
      [] p.ty = "leaf" -> LeafProof_input_hash(p)
      [] p.ty = "node" -> NodeProof_input_hash(p)
circuit_hash(p) ==
    CASE p.ty = "user" -> UserProof_circuit_hash(p)
      [] p.ty = "leaf" -> LeafProof_circuit_hash(p)
      [] p.ty = "node" -> NodeProof_circuit_hash(p)
circuit_verifier_digest(p) ==
    CASE p.ty = "user" -> UserProof_circuit_verifier_digest(p)
      [] p.ty = "leaf" -> LeafProof_circuit_verifier_digest(p)
      [] p.ty = "node" -> NodeProof_circuit_verifier_digest(p)
user_public_inputs(p) ==
    IF p.ty = "user" THEN UserProof_user_public_inputs(p) ELSE <<>>
proof(p) == p.proof_data

(***************************************************************************)
(* Backend: build and prove.                                               *)
(***************************************************************************)
\* The outcomes of the backend's sizing.  The common data of a circuit holds
\* its shape (degree, gate set, number of public inputs), not its wiring, and
\* the source does not fix which circuits share a shape:
\*   structure  every differently wired circuit has its own common data;
\*   kind       all leaf circuits pad to one shape, all node circuits to another;
\*   same       leaf and node circuits all pad to one shape.
CommonDataOutcomes == {"structure", "kind", "same"}

\* The shape of a compiled circuit under the outcome of this build.
Shape(structure) ==
    CASE common_data = "structure" -> structure
      [] common_data = "kind" -> [circuit |-> structure.circuit]
      [] common_data = "same" -> [circuit |-> "recursive"]

\* A build whose digest tells only leaf circuits from node circuits.
Build_DigestPerKind(compiled) ==
    [digest |-> Digest([circuit |-> compiled.structure.circuit]),
     common |-> [num_public_inputs |-> compiled.num_public_inputs,
                 circuit |-> Shape(compiled.structure)]]

\* CircuitBuilder::build: the circuit data of a compiled circuit.  The
\* digest is determined by the circuit's structure (its wiring), the common
\* data by its shape.
Build(compiled) ==
    [digest |-> Digest(compiled.structure),
     common |-> [num_public_inputs |-> compiled.num_public_inputs,
                 circuit |-> Shape(compiled.structure)]]

\* A prover that emits a proof for any witness, satisfying or not.
Prove_Unchecked(satisfied, public_inputs) ==
    Ok([public_inputs |-> public_inputs, valid |-> satisfied])

\* CircuitData::prove: a proof exists exactly for a satisfying witness; its
\* public inputs are the witnessed values of the registered targets.
Prove(satisfied, public_inputs) ==
    IF satisfied
    THEN Ok([public_inputs |-> public_inputs, valid |-> TRUE])
    ELSE Err("backend: the witness does not satisfy the circuit")

(***************************************************************************)
(* LeafCircuit (components/leaf_circuit.rs).                               *)
(***************************************************************************)
LeafCircuit_new(user_proof) ==
    [user_proof |-> user_proof, verifier_circuit_digest |-> None]

\* compile: the structure read from the user proof (the number of flat input
\* targets, the user circuit's common data), and the arity flag.  Indexing
\* public_inputs[i] for every flat input aborts when the user proof has fewer
\* public inputs than flat inputs.
LeafCircuit_compile(c) ==
    LET compile_(n_flat, common) ==
            IF n_flat > common.num_public_inputs
            THEN Panic("index out of bounds: public_inputs")
            ELSE Ok([structure |-> [circuit |-> "leaf", n_flat |-> n_flat,
                                    common |-> common],
                     num_public_inputs |-> 2 * NUM_HASH_OUT_ELTS,
                     n_flat |-> n_flat,
                     arity_mismatch |-> n_flat # common.num_public_inputs])
    IN  compile_(Len(flatten(user_public_inputs(c.user_proof))),
                 proof(c.user_proof).circuit_data.common)

\* compile_and_build: builds, and caches the digest in the circuit object.
LeafCircuit_compile_and_build(c) ==
    LET build_(comp) ==
            IF comp.tag = "Panic" THEN comp
            ELSE LET cache_(circuit_data) ==
                         Ok([circuit_data |-> circuit_data,
                             compiled |-> comp.val,
                             self |-> [c EXCEPT !.verifier_circuit_digest =
                                                   Some(circuit_data.digest)]])
                 IN  cache_(Build(comp.val))
    IN  build_(LeafCircuit_compile(c))

LeafCircuit_evaluate(c) ==
    <<input_hash(c.user_proof), circuit_hash(c.user_proof)>>

\* A fill that witnesses the zero hash when no digest is cached.
LeafCircuit_fill_NoCheck(c) ==
    LET fill_(vcd, uvd) ==
            Ok([flatten_user_public_inputs |->
                    flatten(user_public_inputs(c.user_proof)),
                hash_user_public_inputs |-> input_hash(c.user_proof),
                user_verifier_circuit_digest |-> uvd,
                verifier_circuit_digest |-> vcd,
                leaf_circuit_hash |-> hash_or_noop(vcd \o uvd),
                user_proof_with_pis |-> proof(c.user_proof).proof_with_pis,
                user_verifier_data |-> proof(c.user_proof).circuit_data])
    IN  fill_(IF c.verifier_circuit_digest.some
              THEN c.verifier_circuit_digest.val ELSE from_partial(<<>>),
              circuit_verifier_digest(c.user_proof))

\* fill: the witness, or an error when no digest is cached.
LeafCircuit_fill(c) ==
    IF c.verifier_circuit_digest.some
    THEN LET fill_(vcd, uvd) ==
                 Ok([flatten_user_public_inputs |->
                         flatten(user_public_inputs(c.user_proof)),
                     hash_user_public_inputs |-> input_hash(c.user_proof),
                     user_verifier_circuit_digest |-> uvd,
                     verifier_circuit_digest |-> vcd,
                     leaf_circuit_hash |-> hash_or_noop(vcd \o uvd),
                     user_proof_with_pis |-> proof(c.user_proof).proof_with_pis,
                     user_verifier_data |-> proof(c.user_proof).circuit_data])
         IN  fill_(c.verifier_circuit_digest.val,
                   circuit_verifier_digest(c.user_proof))
    ELSE Err("Failed to generate the verifier circuit digest. Please compile the circuit once again")

\* The leaf circuit without the in-circuit verification of the user proof.
LeafCircuit_satisfied_NoUserVerify(compiled, w) ==
    /\ hash_or_noop(w.flatten_user_public_inputs) = w.hash_user_public_inputs
    /\ w.leaf_circuit_hash
         = hash_or_noop(w.verifier_circuit_digest \o w.user_verifier_circuit_digest)
    /\ ~compiled.arity_mismatch
    /\ \A i \in 1..compiled.n_flat :
          w.user_proof_with_pis.public_inputs[i] = w.flatten_user_public_inputs[i]

\* The leaf circuit without the connection of the proof's public inputs to
\* the flat inputs.
LeafCircuit_satisfied_NoInputConnect(compiled, w) ==
    /\ hash_or_noop(w.flatten_user_public_inputs) = w.hash_user_public_inputs
    /\ w.leaf_circuit_hash
         = hash_or_noop(w.verifier_circuit_digest \o w.user_verifier_circuit_digest)
    /\ BackendVerify(ProofData(w.user_proof_with_pis, w.user_verifier_data))
    /\ ~compiled.arity_mismatch

\* A leaf circuit that also connects the declared user circuit hash to the
\* digest of the verifier data of the wrapped proof.
LeafCircuit_satisfied_BindsDeclared(compiled, w) ==
    /\ hash_or_noop(w.flatten_user_public_inputs) = w.hash_user_public_inputs
    /\ w.leaf_circuit_hash
         = hash_or_noop(w.verifier_circuit_digest \o w.user_verifier_circuit_digest)
    /\ w.user_verifier_circuit_digest = w.user_verifier_data.digest
    /\ BackendVerify(ProofData(w.user_proof_with_pis, w.user_verifier_data))
    /\ ~compiled.arity_mismatch
    /\ \A i \in 1..compiled.n_flat :
          w.user_proof_with_pis.public_inputs[i] = w.flatten_user_public_inputs[i]

\* The constraints compile injects, evaluated on the witness of fill.
LeafCircuit_satisfied(compiled, w) ==
    /\ hash_or_noop(w.flatten_user_public_inputs) = w.hash_user_public_inputs
    /\ w.leaf_circuit_hash
         = hash_or_noop(w.verifier_circuit_digest \o w.user_verifier_circuit_digest)
    /\ BackendVerify(ProofData(w.user_proof_with_pis, w.user_verifier_data))
    /\ ~compiled.arity_mismatch
    /\ \A i \in 1..compiled.n_flat :
          w.user_proof_with_pis.public_inputs[i] = w.flatten_user_public_inputs[i]

\* The registered public inputs: the input hash, then the leaf circuit hash.
LeafCircuit_public_inputs(w) == w.hash_user_public_inputs \o w.leaf_circuit_hash

\* A proof that fills the witness from the circuit object as it was before
\* compile_and_build cached the digest.
LeafCircuit_proof_FillFirst(c) ==
    LET after_build(built) ==
            IF built.tag = "Panic" THEN built
            ELSE LET after_fill(filled) ==
                         IF filled.tag = "Err" THEN filled
                         ELSE IF built.val.circuit_data.digest
                                   # built.val.self.verifier_circuit_digest.val
                         THEN Err("Verifier circuit digest is not valid !")
                         ELSE LET after_prove(proved) ==
                                      IF proved.tag = "Err" THEN proved
                                      ELSE Ok(ProofData(proved.val,
                                                        built.val.circuit_data))
                              IN  after_prove(
                                      Prove(LeafCircuit_satisfied(built.val.compiled,
                                                                  filled.val),
                                            LeafCircuit_public_inputs(filled.val)))
                 IN  after_fill(LeafCircuit_fill(c))
    IN  after_build(LeafCircuit_compile_and_build(c))

\* Provable::proof
LeafCircuit_proof(c) ==
    LET after_build(built) ==
            IF built.tag = "Panic" THEN built
            ELSE LET after_fill(filled) ==
                         IF filled.tag = "Err" THEN filled
                         ELSE IF built.val.circuit_data.digest
                                   # built.val.self.verifier_circuit_digest.val
                         THEN Err("Verifier circuit digest is not valid !")
                         ELSE LET after_prove(proved) ==
                                      IF proved.tag = "Err" THEN proved
                                      ELSE Ok(ProofData(proved.val,
                                                        built.val.circuit_data))
                              IN  after_prove(
                                      Prove(LeafCircuit_satisfied(built.val.compiled,
                                                                  filled.val),
                                            LeafCircuit_public_inputs(filled.val)))
                 IN  after_fill(LeafCircuit_fill(built.val.self))
    IN  after_build(LeafCircuit_compile_and_build(c))

(***************************************************************************)
(* LeafProof (components/leaf_proof.rs).                                   *)
(***************************************************************************)
LeafProof_new(hash_user_public_inputs, user_circuit_hash, proof_data) ==
    [ty |-> "leaf", hash_user_public_inputs |-> hash_user_public_inputs,
     user_circuit_hash |-> user_circuit_hash, proof_data |-> proof_data]

LeafProof_new_from_user_proof(user_proof) ==
    LET wrap_(hash_user_public_inputs, user_circuit_hash, proof_data) ==
            IF proof_data.tag # "Ok" THEN proof_data
            ELSE Ok(LeafProof_new(hash_user_public_inputs, user_circuit_hash,
                                  proof_data.val))
    IN  wrap_(hash_or_noop(flatten(user_public_inputs(user_proof))),
              circuit_hash(user_proof),
              LeafCircuit_proof(LeafCircuit_new(user_proof)))

(***************************************************************************)
(* NodeCircuit (components/node_circuit.rs).                               *)
(***************************************************************************)
NodeCircuit_new(left_child, right_child) ==
    [left_child |-> left_child, right_child |-> right_child,
     verifier_circuit_digest |-> None]

\* compile: the structure read from the two children's common data, and the
\* two arity flags.  Indexing public_inputs[0..8] of a child aborts when the
\* child's proof has fewer than 8 public inputs.
NodeCircuit_compile(c) ==
    LET compile_(lc, rc) ==
            IF \/ lc.num_public_inputs < NUM_PUBLIC_INPUTS
               \/ rc.num_public_inputs < NUM_PUBLIC_INPUTS
            THEN Panic("index out of bounds: public_inputs")
            ELSE Ok([structure |-> [circuit |-> "node", left |-> lc, right |-> rc],
                     num_public_inputs |-> 2 * NUM_HASH_OUT_ELTS,
                     left_arity_mismatch |->
                         lc.num_public_inputs # NUM_PUBLIC_INPUTS,
                     right_arity_mismatch |->
                         rc.num_public_inputs # NUM_PUBLIC_INPUTS])
    IN  compile_(proof(c.left_child).circuit_data.common,
                 proof(c.right_child).circuit_data.common)

NodeCircuit_compile_and_build(c) ==
    LET build_(comp) ==
            IF comp.tag = "Panic" THEN comp
            ELSE LET cache_(circuit_data) ==
                         Ok([circuit_data |-> circuit_data,
                             compiled |-> comp.val,
                             self |-> [c EXCEPT !.verifier_circuit_digest =
                                                   Some(circuit_data.digest)]])
                 IN  cache_(Build(comp.val))
    IN  build_(NodeCircuit_compile(c))

\* evaluate: (node_circuit_hash, node_input_hash); unwraps the cached digest.
NodeCircuit_evaluate(c) ==
    IF ~c.verifier_circuit_digest.some
    THEN Panic("called Option::unwrap() on a None value")
    ELSE Ok(<<hash_or_noop(circuit_hash(c.left_child)
                           \o c.verifier_circuit_digest.val
                           \o circuit_hash(c.right_child)),
              hash_or_noop(input_hash(c.left_child) \o input_hash(c.right_child))>>)

\* fill: the witness; unwraps the cached digest.
NodeCircuit_fill(c) ==
    LET fill_(ev) ==
            IF ev.tag = "Panic" THEN ev
            ELSE Ok([left_proof_with_pis |-> proof(c.left_child).proof_with_pis,
                     right_proof_with_pis |-> proof(c.right_child).proof_with_pis,
                     left_verifier_data |-> proof(c.left_child).circuit_data,
                     right_verifier_data |-> proof(c.right_child).circuit_data,
                     left_child_circuit_hash |-> circuit_hash(c.left_child),
                     right_child_circuit_hash |-> circuit_hash(c.right_child),
                     left_child_input_hash |-> input_hash(c.left_child),
                     right_child_input_hash |-> input_hash(c.right_child),
                     verifier_circuit_digest |-> c.verifier_circuit_digest.val,
                     node_circuit_hash |-> ev.val[1],
                     node_input_hash |-> ev.val[2]])
    IN  fill_(NodeCircuit_evaluate(c))

\* The constraints compile injects, evaluated on the witness of fill.
NodeCircuit_satisfied(compiled, w) ==
    /\ BackendVerify(ProofData(w.left_proof_with_pis, w.left_verifier_data))
    /\ BackendVerify(ProofData(w.right_proof_with_pis, w.right_verifier_data))
    /\ w.node_input_hash
         = hash_or_noop(w.left_child_input_hash \o w.right_child_input_hash)
    /\ w.left_verifier_data.digest = w.right_verifier_data.digest
    /\ w.node_circuit_hash
         = hash_or_noop(w.left_child_circuit_hash \o w.verifier_circuit_digest
                        \o w.right_child_circuit_hash)
    /\ ~compiled.left_arity_mismatch
    /\ \A i \in 1..NUM_HASH_OUT_ELTS :
          /\ w.left_proof_with_pis.public_inputs[i] = w.left_child_input_hash[i]
          /\ w.left_proof_with_pis.public_inputs[i + NUM_HASH_OUT_ELTS]
               = w.left_child_circuit_hash[i]
    /\ ~compiled.right_arity_mismatch
    /\ \A i \in 1..NUM_HASH_OUT_ELTS :
          /\ w.right_proof_with_pis.public_inputs[i] = w.right_child_input_hash[i]
          /\ w.right_proof_with_pis.public_inputs[i + NUM_HASH_OUT_ELTS]
               = w.right_child_circuit_hash[i]

\* The node circuit registering the circuit hash before the input hash.
NodeCircuit_public_inputs_Swapped(w) == w.node_circuit_hash \o w.node_input_hash

\* The registered public inputs: the node input hash, then the circuit hash.
NodeCircuit_public_inputs(w) == w.node_input_hash \o w.node_circuit_hash

\* Provable::proof
NodeCircuit_proof(c) ==
    LET after_build(built) ==
            IF built.tag = "Panic" THEN built
            ELSE LET after_fill(filled) ==
                         IF filled.tag = "Panic" THEN filled
                         ELSE IF built.val.circuit_data.digest
                                   # built.val.self.verifier_circuit_digest.val
                         THEN Err("Verifier circuit digest is not valid !")
                         ELSE LET after_prove(proved) ==
                                      IF proved.tag = "Err" THEN proved
                                      ELSE Ok(ProofData(proved.val,
                                                        built.val.circuit_data))
                              IN  after_prove(
                                      Prove(NodeCircuit_satisfied(built.val.compiled,
                                                                  filled.val),
                                            NodeCircuit_public_inputs(filled.val)))
                 IN  after_fill(NodeCircuit_fill(built.val.self))
    IN  after_build(NodeCircuit_compile_and_build(c))

(***************************************************************************)
(* NodeProof (components/node_proof.rs).                                   *)
(***************************************************************************)
NodeProof_new(proof_data, input_hash_, circuit_hash_) ==
    [ty |-> "node", proof_data |-> proof_data, input_hash |-> input_hash_,
     circuit_hash |-> circuit_hash_]

\* new_from_children folding the input hashes right child first.
NodeProof_new_from_children_Swapped(left_node_proof, right_node_proof) ==
    LET from_children_(input_hash_, left_node_circuit_hash, right_node_circuit_hash) ==
            IF proof(left_node_proof).circuit_data.digest
                 # proof(right_node_proof).circuit_data.digest
            THEN [res |-> Err("Invalid circuit verifier data for node 1 and node 2"),
                  builds |-> 0]
            ELSE LET wrap_(proof_data) ==
                         IF proof_data.tag # "Ok"
                         THEN [res |-> proof_data, builds |-> 1]
                         ELSE [res |-> Ok(NodeProof_new(
                                              proof_data.val, input_hash_,
                                              hash_or_noop(
                                                  left_node_circuit_hash
                                                  \o proof_data.val.circuit_data.digest
                                                  \o right_node_circuit_hash))),
                               builds |-> 1]
                 IN  wrap_(NodeCircuit_proof(NodeCircuit_new(left_node_proof,
                                                             right_node_proof)))
    IN  from_children_(
            hash_or_noop(input_hash(right_node_proof) \o input_hash(left_node_proof)),
            circuit_hash(left_node_proof),
            circuit_hash(right_node_proof))

\* new_from_children without the comparison of the children's digests.
NodeProof_new_from_children_NoSiblingCheck(left_node_proof, right_node_proof) ==
    LET from_children_(input_hash_, left_node_circuit_hash, right_node_circuit_hash) ==
            LET wrap_(proof_data) ==
                    IF proof_data.tag # "Ok"
                    THEN [res |-> proof_data, builds |-> 1]
                    ELSE [res |-> Ok(NodeProof_new(
                                         proof_data.val, input_hash_,
                                         hash_or_noop(
                                             left_node_circuit_hash
                                             \o proof_data.val.circuit_data.digest
                                             \o right_node_circuit_hash))),
                          builds |-> 1]
            IN  wrap_(NodeCircuit_proof(NodeCircuit_new(left_node_proof,
                                                        right_node_proof)))
    IN  from_children_(
            hash_or_noop(input_hash(left_node_proof) \o input_hash(right_node_proof)),
            circuit_hash(left_node_proof),
            circuit_hash(right_node_proof))

\* new_from_children: res is what the call returns, builds the number of
\* node-circuit compile_and_build calls it made on the way.
NodeProof_new_from_children(left_node_proof, right_node_proof) ==
    LET from_children_(input_hash_, left_node_circuit_hash, right_node_circuit_hash) ==
            IF proof(left_node_proof).circuit_data.digest
                 # proof(right_node_proof).circuit_data.digest
            THEN [res |-> Err("Invalid circuit verifier data for node 1 and node 2"),
                  builds |-> 0]
            ELSE LET wrap_(proof_data) ==
                         IF proof_data.tag # "Ok"
                         THEN [res |-> proof_data, builds |-> 1]
                         ELSE [res |-> Ok(NodeProof_new(
                                              proof_data.val, input_hash_,
                                              hash_or_noop(
                                                  left_node_circuit_hash
                                                  \o proof_data.val.circuit_data.digest
                                                  \o right_node_circuit_hash))),
                               builds |-> 1]
                 IN  wrap_(NodeCircuit_proof(NodeCircuit_new(left_node_proof,
                                                             right_node_proof)))
    IN  from_children_(
            hash_or_noop(input_hash(left_node_proof) \o input_hash(right_node_proof)),
            circuit_hash(left_node_proof),
            circuit_hash(right_node_proof))

(***************************************************************************)
(* Integer helpers of the driver.                                          *)
(***************************************************************************)
\* usize::is_power_of_two
RECURSIVE is_power_of_two(_)
is_power_of_two(n) ==
    IF n = 0 THEN FALSE
    ELSE IF n = 1 THEN TRUE
    ELSE n % 2 = 0 /\ is_power_of_two(n \div 2)

\* usize::ilog2, for n > 0 (it aborts on 0)
RECURSIVE ilog2(_)
ilog2(n) == IF n <= 1 THEN 0 ELSE 1 + ilog2(n \div 2)

\* 1 << k
RECURSIVE Pow2(_)
Pow2(k) == IF k = 0 THEN 1 ELSE 2 * Pow2(k - 1)

\* vec[i] with the code's 0-based index
At(vec, i) == vec[i + 1]

(***************************************************************************)
(* The user proofs ZkTree::new is tried on (the circuits of tests.rs).     *)
(***************************************************************************)
\* The ProofData a user circuit's build and prove produce: valid is FALSE
\* for a proof made from a witness that violates the circuit.
UserProofData(name, public_inputs, valid) ==
    ProofData([public_inputs |-> public_inputs, valid |-> valid],
              [digest |-> Digest([circuit |-> "user", name |-> name]),
               common |-> [num_public_inputs |-> Len(public_inputs),
                           circuit |-> [circuit |-> "user"]]])

\* A user proof as the tests wrap it: the declared circuit hash is the
\* digest of the user circuit, the inputs are the proof's public inputs.
UserProofOf(name, inputs, valid) ==
    LET pd == UserProofData(name, flatten(inputs), valid)
    IN  UserProof_new(inputs, pd.circuit_data.digest, pd)

circuit_1 == UserProofOf("circuit_1", <<<<Fe(1)>>>>, TRUE)
circuit_2 == UserProofOf("circuit_2", <<<<Fe(2)>>>>, TRUE)
malformed_circuit_1 == UserProofOf("circuit_1", <<<<Fe(3)>>>>, FALSE)
\* another leaf-circuit shape, with more than four flat inputs: the input
\* hash is a sponge output
circuit_long_inputs ==
    UserProofOf("circuit_long", <<<<Fe(1), Fe(2), Fe(3)>>, <<Fe(4), Fe(5)>>>>, TRUE)

UserProofKinds ==
    {circuit_1, circuit_2, malformed_circuit_1, circuit_long_inputs}

\* Every batch of 0..MaxBatch user proofs.
MixedBatches == UNION {[1..n -> UserProofKinds] : n \in 0..MaxBatch}

\* Taller trees: batches of 2^h user proofs, one kind in each half.
HalvedBatches ==
    {[i \in 1..Pow2(h) |-> IF i <= Pow2(h - 1) THEN a ELSE b] :
        a \in UserProofKinds, b \in UserProofKinds, h \in 3..MaxHeight}

\* User proofs whose parts disagree with each other.  UserProof::new takes
\* the inputs, the declared circuit hash and the proof data as they come.
\* inputs of the right length that are not the proof's public inputs
mismatched_inputs ==
    UserProof_new(<<<<Fe(7)>>>>, Digest([circuit |-> "user", name |-> "circuit_1"]),
                  UserProofData("circuit_1", <<Fe(1)>>, TRUE))
\* a proof with fewer public inputs than there are flat inputs
fewer_public_inputs ==
    UserProof_new(<<<<Fe(1)>>, <<Fe(2)>>>>,
                  Digest([circuit |-> "user", name |-> "circuit_1"]),
                  UserProofData("circuit_1", <<Fe(1)>>, TRUE))
\* a proof with more public inputs than there are flat inputs
more_public_inputs ==
    UserProof_new(<<<<Fe(1)>>>>, Digest([circuit |-> "user", name |-> "circuit_wide"]),
                  UserProofData("circuit_wide", <<Fe(1), Fe(2)>>, TRUE))
\* a declared circuit hash that is not the digest of the proof's circuit
undeclared_circuit ==
    UserProof_new(<<<<Fe(1)>>>>, Digest([circuit |-> "user", name |-> "declared"]),
                  UserProofData("circuit_1", <<Fe(1)>>, TRUE))

InconsistentKinds ==
    {mismatched_inputs, fewer_public_inputs, more_public_inputs, undeclared_circuit}

\* Batches of 1..MaxBatch user proofs of circuit_1 with one inconsistent
\* user proof at any position.
InconsistentBatches ==
    UNION {{[i \in 1..n |-> IF i = k THEN w ELSE circuit_1] :
               k \in 1..n, w \in InconsistentKinds} : n \in 1..MaxBatch}

\* A user circuit with two public inputs, the second of them zero: its input
\* hash, padded by hash_or_noop, is the input hash of circuit_1.
circuit_padded == UserProofOf("circuit_padded", <<<<Fe(1), ZERO>>>>, TRUE)

\* Batches that mix circuit_1 with circuit_padded.
PaddedBatches ==
    {<<circuit_padded, circuit_padded>>, <<circuit_1, circuit_padded>>,
     <<circuit_1, circuit_1, circuit_padded, circuit_padded>>}

Batches ==
    MixedBatches \cup HalvedBatches \cup InconsistentBatches \cup PaddedBatches

(***************************************************************************)
(* ZkTree::verify (zktree.rs).                                             *)
(***************************************************************************)
\* The cap of MerkleTree::new(leaves, 0): each leaf hashed with hash_or_noop,
\* then pairs compressed with two_to_one up to the single root.
RECURSIVE MerkleRoot(_)
MerkleRoot(digests) ==
    IF Len(digests) = 1 THEN digests[1]
    ELSE LET half == Len(digests) \div 2
         IN  two_to_one(MerkleRoot(SubSeq(digests, 1, half)),
                        MerkleRoot(SubSeq(digests, half + 1, Len(digests))))

\* MerkleTree::new with cap_height 0; log2_strict aborts on a leaf count
\* that is not a power of two.
MerkleTree_new(leaves) ==
    IF ~is_power_of_two(Len(leaves))
    THEN Panic("log2_strict: not a power of two")
    ELSE Ok(MerkleRoot([i \in 1..Len(leaves) |-> hash_or_noop(leaves[i])]))

\* ZkTree::root: the last node proof; expect aborts on an empty vector.
ZkTree_root(nodes) ==
    IF nodes = <<>> THEN Panic("Failed to retrieve root")
    ELSE Ok(nodes[Len(nodes)])

\* ZkTree::verify without the comparison of the cap with the root input hash.
ZkTree_verify_NoCapCheck(users, nodes) ==
    LET verify_(root) ==
            IF root.tag = "Panic" THEN root
            ELSE IF ~BackendVerify(proof(root.val))
            THEN Err("backend: the root proof does not verify")
            ELSE LET compare_(input_hashes_merkle_tree) ==
                         IF input_hashes_merkle_tree.tag = "Panic"
                         THEN input_hashes_merkle_tree
                         ELSE Ok(<<>>)
                 IN  compare_(MerkleTree_new(
                         [i \in 1..Len(users) |->
                             flatten(user_public_inputs(users[i]))]))
    IN  verify_(ZkTree_root(nodes))

\* A verify that also checks every stored node proof with the backend.
ZkTree_verify_EveryNode(users, nodes) ==
    LET verify_(root) ==
            IF root.tag = "Panic" THEN root
            ELSE IF \E k \in 1..Len(nodes) : ~BackendVerify(proof(nodes[k]))
            THEN Err("backend: a node proof does not verify")
            ELSE LET compare_(input_hashes_merkle_tree) ==
                         IF input_hashes_merkle_tree.tag = "Panic"
                         THEN input_hashes_merkle_tree
                         ELSE IF input_hashes_merkle_tree.val # input_hash(root.val)
                         THEN Err("Input hashes do not match")
                         ELSE Ok(<<>>)
                 IN  compare_(MerkleTree_new(
                         [i \in 1..Len(users) |->
                             flatten(user_public_inputs(users[i]))]))
    IN  verify_(ZkTree_root(nodes))

\* ZkTree::verify
ZkTree_verify(users, nodes) ==
    LET verify_(root) ==
            IF root.tag = "Panic" THEN root
            ELSE IF ~BackendVerify(proof(root.val))
            THEN Err("backend: the root proof does not verify")
            ELSE LET compare_(input_hashes_merkle_tree) ==
                         IF input_hashes_merkle_tree.tag = "Panic"
                         THEN input_hashes_merkle_tree
                         ELSE IF input_hashes_merkle_tree.val # input_hash(root.val)
                         THEN Err("Input hashes do not match")
                         ELSE Ok(<<>>)
                 IN  compare_(MerkleTree_new(
                         [i \in 1..Len(users) |->
                             flatten(user_public_inputs(users[i]))]))
    IN  verify_(ZkTree_root(nodes))

(***************************************************************************)
(* The parallel map-and-collect of utils.rs.                               *)
(***************************************************************************)
Pending == [tag |-> "Pending"]
Skipped == [tag |-> "Skipped"]

\* The items of (lo..hi).step_by(2): one task per start index.
StepBy2(lo, hi) ==
    IF hi <= lo THEN <<>>
    ELSE [j \in 1..((hi - lo + 1) \div 2) |-> [i |-> lo + 2 * (j - 1), res |-> Pending, builds |-> 0]]

\* A tree builder that pairs the leaves from the right end of the vector.
generate_node_proofs_from_leaves_Mirrored(leaves) ==
    [j \in 1..(Len(leaves) \div 2) |->
        [i |-> Len(leaves) - 2 * j, res |-> Pending, builds |-> 0]]

\* generate_node_proofs_from_leaves: the tasks over the leaf vector
generate_node_proofs_from_leaves(leaves) == StepBy2(0, Len(leaves))

\* generate_node_proofs_from_nodes ranging from the start of the node vector.
generate_node_proofs_from_nodes_FromZero(nodes, start, len) == StepBy2(0, len)

\* generate_node_proofs_from_nodes: the tasks over a range of the node vector
generate_node_proofs_from_nodes(nodes, start, len) == StepBy2(start, len)

\* The closure of one task with the two children exchanged.
TaskBody_Swapped(vec, i) ==
    IF i + 1 >= Len(vec)
    THEN [res |-> Panic("index out of bounds"), builds |-> 0]
    ELSE LET tag_(out) ==
                 IF out.res.tag = "Err"
                 THEN [res |-> [tag |-> "Err", msg |-> out.res.msg, at |-> i],
                       builds |-> out.builds]
                 ELSE out
         IN  tag_(NodeProof_new_from_children(At(vec, i + 1), At(vec, i)))

\* The closure of one task: |i| NodeProof::new_from_children(&v[i], &v[i + 1]).
\* Indexing past the end of the vector aborts.
TaskBody(vec, i) ==
    IF i + 1 >= Len(vec)
    THEN [res |-> Panic("index out of bounds"), builds |-> 0]
    ELSE LET tag_(out) ==
                 IF out.res.tag = "Err"
                 THEN [res |-> [tag |-> "Err", msg |-> out.res.msg, at |-> i],
                       builds |-> out.builds]
                 ELSE out
         IN  tag_(NodeProof_new_from_children(At(vec, i), At(vec, i + 1)))

\* A collect that yields the values from the last position to the first.
Collect_Reversed(ts, saved) ==
    IF \E j \in 1..Len(ts) : ts[j].res.tag = "Panic"
    THEN (CHOOSE r \in {ts[j].res : j \in 1..Len(ts)} : r.tag = "Panic")
    ELSE IF saved.some THEN saved.val
    ELSE Ok([j \in 1..Len(ts) |-> ts[Len(ts) + 1 - j].res.val])

\* A collect that drops the failed tasks and yields an empty level.
Collect_DropErrors(ts, saved) ==
    IF \E j \in 1..Len(ts) : ts[j].res.tag = "Panic"
    THEN (CHOOSE r \in {ts[j].res : j \in 1..Len(ts)} : r.tag = "Panic")
    ELSE IF saved.some THEN Ok(<<>>)
    ELSE Ok([j \in 1..Len(ts) |-> ts[j].res.val])

\* collect::<Result<Vec<_>, _>>(): a panic of a task is resumed in the caller;
\* otherwise the saved error, if any; otherwise the values in index order.
Collect(ts, saved) ==
    IF \E j \in 1..Len(ts) : ts[j].res.tag = "Panic"
    THEN (CHOOSE r \in {ts[j].res : j \in 1..Len(ts)} : r.tag = "Panic")
    ELSE IF saved.some THEN saved.val
    ELSE Ok([j \in 1..Len(ts) |-> ts[j].res.val])

(***************************************************************************)
(* ZkTree::new (zktree.rs): the driver.                                    *)
(***************************************************************************)
NoResult == [tag |-> "none"]

Init ==
    /\ debug_assertions \in BOOLEAN
    /\ common_data \in CommonDataOutcomes
    /\ circuit = None
    /\ call_result = NoResult
    /\ user_proofs \in Batches
    /\ leaf_proofs = <<>>
    /\ node_proofs = <<>>
    /\ zktree_height = 0
    /\ height = 0
    /\ start_child_index = 0
    /\ node_proofs_len = 0
    /\ pc = "new"
    /\ tasks = <<>>
    /\ saved_error = None
    /\ result = NoResult
    /\ verify_result = NoResult
    /\ leaf_builds = 0
    /\ node_builds = 0

\* The entry of ZkTree::new: the debug assertion on the batch size, and ilog2.
New_Enter ==
    /\ pc = "new"
    /\ LET n == Len(user_proofs)
       IN  IF debug_assertions /\ ~(is_power_of_two(n) /\ n > 1)
           THEN /\ result' = Panic("assertion failed: user_proofs.len().is_power_of_two() && user_proofs.len() > 1")
                /\ pc' = "done"
                /\ UNCHANGED zktree_height
           ELSE IF n = 0
           THEN /\ result' = Panic("argument of integer logarithm must be positive")
                /\ pc' = "done"
                /\ UNCHANGED zktree_height
           ELSE /\ zktree_height' = ilog2(n)
                /\ pc' = "leaves"
                /\ UNCHANGED result
    /\ UNCHANGED <<common_data, circuit, call_result, debug_assertions,
                   user_proofs, leaf_proofs, node_proofs, height,
                   start_child_index, node_proofs_len, tasks, saved_error,
                   verify_result, leaf_builds, node_builds>>

\* A leaf loop that hands over to the level loop after its second leaf.
New_Leaf_EarlyLevel ==
    /\ pc = "leaves"
    /\ LET push_(k, leaf) ==
               /\ leaf_builds' = leaf_builds + 1
               /\ IF leaf.tag = "Ok"
                  THEN /\ leaf_proofs' = Append(leaf_proofs, leaf.val)
                       /\ pc' = IF k = Len(user_proofs) \/ k = 2
                                THEN "level" ELSE "leaves"
                       /\ UNCHANGED result
                  ELSE /\ result' = IF leaf.tag = "Err"
                                    THEN [tag |-> "Err", msg |-> leaf.msg, at |-> k - 1]
                                    ELSE leaf
                       /\ pc' = "done"
                       /\ UNCHANGED leaf_proofs
       IN  push_(Len(leaf_proofs) + 1,
                 LeafProof_new_from_user_proof(user_proofs[Len(leaf_proofs) + 1]))
    /\ UNCHANGED <<common_data, circuit, call_result, debug_assertions,
                   user_proofs, node_proofs, zktree_height, height,
                   start_child_index, node_proofs_len, tasks, saved_error,
                   verify_result, node_builds>>

\* A leaf loop that compiles and builds the leaf circuit for its first leaf
\* only and reuses it afterwards.
New_Leaf_BuildOnce ==
    /\ pc = "leaves"
    /\ LET push_(k, leaf) ==
               /\ leaf_builds' = IF leaf_builds = 0 THEN 1 ELSE leaf_builds
               /\ IF leaf.tag = "Ok"
                  THEN /\ leaf_proofs' = Append(leaf_proofs, leaf.val)
                       /\ pc' = IF k = Len(user_proofs) THEN "level" ELSE "leaves"
                       /\ UNCHANGED result
                  ELSE /\ result' = IF leaf.tag = "Err"
                                    THEN [tag |-> "Err", msg |-> leaf.msg, at |-> k - 1]
                                    ELSE leaf
                       /\ pc' = "done"
                       /\ UNCHANGED leaf_proofs
       IN  push_(Len(leaf_proofs) + 1,
                 LeafProof_new_from_user_proof(user_proofs[Len(leaf_proofs) + 1]))
    /\ UNCHANGED <<common_data, circuit, call_result, debug_assertions,
                   user_proofs, node_proofs, zktree_height, height,
                   start_child_index, node_proofs_len, tasks, saved_error,
                   verify_result, node_builds>>

\* One iteration of the leaf loop: LeafProof::new_from_user_proof(user_proof)?
New_Leaf ==
    /\ pc = "leaves"
    /\ LET push_(k, leaf) ==
               /\ leaf_builds' = leaf_builds + 1
               /\ IF leaf.tag = "Ok"
                  THEN /\ leaf_proofs' = Append(leaf_proofs, leaf.val)
                       /\ pc' = IF k = Len(user_proofs) THEN "level" ELSE "leaves"
                       /\ UNCHANGED result
                  ELSE /\ result' = IF leaf.tag = "Err"
                                    THEN [tag |-> "Err", msg |-> leaf.msg, at |-> k - 1]
                                    ELSE leaf
                       /\ pc' = "done"
                       /\ UNCHANGED leaf_proofs
       IN  push_(Len(leaf_proofs) + 1,
                 LeafProof_new_from_user_proof(user_proofs[Len(leaf_proofs) + 1]))
    /\ UNCHANGED <<common_data, circuit, call_result, debug_assertions,
                   user_proofs, node_proofs, zktree_height, height,
                   start_child_index, node_proofs_len, tasks, saved_error,
                   verify_result, node_builds>>

\* The head of one iteration of the level loop: the level's tasks are handed
\* to the thread pool.
Level_Spawn ==
    /\ pc = "level"
    /\ height < zktree_height
    /\ tasks' = IF height = 0
                THEN generate_node_proofs_from_leaves(leaf_proofs)
                ELSE generate_node_proofs_from_nodes(node_proofs, start_child_index,
                                                     node_proofs_len)
    /\ saved_error' = None
    /\ pc' = "tasks"
    /\ UNCHANGED <<common_data, circuit, call_result, debug_assertions,
                   user_proofs, leaf_proofs, node_proofs,
                   zktree_height, height, start_child_index, node_proofs_len,
                   result, verify_result, leaf_builds, node_builds>>

\* A worker runs one task of the level; the first error is saved.
Task_Run(j) ==
    /\ pc = "tasks"
    /\ tasks[j].res = Pending
    /\ LET run_(out) ==
               /\ tasks' = [tasks EXCEPT ![j].res = out.res, ![j].builds = out.builds]
               /\ node_builds' = node_builds + out.builds
               /\ saved_error' = IF out.res.tag = "Err" /\ ~saved_error.some
                                 THEN Some(out.res) ELSE saved_error
       IN  run_(TaskBody(IF height = 0 THEN leaf_proofs ELSE node_proofs, tasks[j].i))
    /\ UNCHANGED <<common_data, circuit, call_result, debug_assertions,
                   user_proofs, leaf_proofs, node_proofs,
                   zktree_height, height, start_child_index, node_proofs_len, pc,
                   result, verify_result, leaf_builds>>

\* Once a task has failed the collect is full: a task not yet started may be
\* dropped without running.
Task_Skip(j) ==
    /\ pc = "tasks"
    /\ tasks[j].res = Pending
    /\ saved_error.some
    /\ tasks' = [tasks EXCEPT ![j].res = Skipped]
    /\ UNCHANGED <<common_data, circuit, call_result, debug_assertions,
                   user_proofs, leaf_proofs, node_proofs,
                   zktree_height, height, start_child_index, node_proofs_len, pc,
                   saved_error, result, verify_result, leaf_builds, node_builds>>

\* A barrier that never advances start_child_index.
Level_Collect_StaleStart ==
    /\ pc = "tasks"
    /\ \A j \in 1..Len(tasks) : tasks[j].res # Pending
    /\ LET extend_(collected) ==
               IF collected.tag = "Ok"
               THEN /\ node_proofs' = node_proofs \o collected.val
                    /\ IF height = 0
                       THEN node_proofs_len' = Len(node_proofs')
                       ELSE node_proofs_len' =
                                node_proofs_len + Pow2(zktree_height - height - 1)
                    /\ UNCHANGED start_child_index
                    /\ height' = height + 1
                    /\ pc' = "level"
                    /\ UNCHANGED result
               ELSE /\ result' = collected
                    /\ pc' = "done"
                    /\ UNCHANGED <<node_proofs, node_proofs_len, start_child_index,
                                   height>>
       IN  extend_(Collect(tasks, saved_error))
    /\ tasks' = <<>>
    /\ saved_error' = None
    /\ UNCHANGED <<common_data, circuit, call_result, debug_assertions,
                   user_proofs, leaf_proofs, zktree_height, verify_result,
                   leaf_builds, node_builds>>

\* A barrier that replaces the node vector by the level just collected.
Level_Collect_Replace ==
    /\ pc = "tasks"
    /\ \A j \in 1..Len(tasks) : tasks[j].res # Pending
    /\ LET extend_(collected) ==
               IF collected.tag = "Ok"
               THEN /\ node_proofs' = collected.val
                    /\ IF height = 0
                       THEN /\ node_proofs_len' = Len(node_proofs')
                            /\ UNCHANGED start_child_index
                       ELSE /\ start_child_index' = node_proofs_len
                            /\ node_proofs_len' =
                                   node_proofs_len + Pow2(zktree_height - height - 1)
                    /\ height' = height + 1
                    /\ pc' = "level"
                    /\ UNCHANGED result
               ELSE /\ result' = collected
                    /\ pc' = "done"
                    /\ UNCHANGED <<node_proofs, node_proofs_len, start_child_index,
                                   height>>
       IN  extend_(Collect(tasks, saved_error))
    /\ tasks' = <<>>
    /\ saved_error' = None
    /\ UNCHANGED <<common_data, circuit, call_result, debug_assertions,
                   user_proofs, leaf_proofs, zktree_height, verify_result,
                   leaf_builds, node_builds>>

\* A barrier that opens only when every task of the level has succeeded.
Level_Collect_WaitsForOk ==
    /\ pc = "tasks"
    /\ \A j \in 1..Len(tasks) : tasks[j].res.tag = "Ok"
    /\ LET extend_(collected) ==
               /\ node_proofs' = node_proofs \o collected.val
               /\ IF height = 0
                  THEN /\ node_proofs_len' = Len(node_proofs')
                       /\ UNCHANGED start_child_index
                  ELSE /\ start_child_index' = node_proofs_len
                       /\ node_proofs_len' =
                              node_proofs_len + Pow2(zktree_height - height - 1)
               /\ height' = height + 1
               /\ pc' = "level"
               /\ UNCHANGED result
       IN  extend_(Collect(tasks, saved_error))
    /\ tasks' = <<>>
    /\ saved_error' = None
    /\ UNCHANGED <<common_data, circuit, call_result, debug_assertions,
                   user_proofs, leaf_proofs, zktree_height, verify_result,
                   leaf_builds, node_builds>>

\* A barrier whose bookkeeping adds the size of the children's level.
Level_Collect_WideLen ==
    /\ pc = "tasks"
    /\ \A j \in 1..Len(tasks) : tasks[j].res # Pending
    /\ LET extend_(collected) ==
               IF collected.tag = "Ok"
               THEN /\ node_proofs' = node_proofs \o collected.val
                    /\ IF height = 0
                       THEN /\ node_proofs_len' = Len(node_proofs')
                            /\ UNCHANGED start_child_index
                       ELSE /\ start_child_index' = node_proofs_len
                            /\ node_proofs_len' =
                                   node_proofs_len + Pow2(zktree_height - height)
                    /\ height' = height + 1
                    /\ pc' = "level"
                    /\ UNCHANGED result
               ELSE /\ result' = collected
                    /\ pc' = "done"
                    /\ UNCHANGED <<node_proofs, node_proofs_len, start_child_index,
                                   height>>
       IN  extend_(Collect(tasks, saved_error))
    /\ tasks' = <<>>
    /\ saved_error' = None
    /\ UNCHANGED <<common_data, circuit, call_result, debug_assertions,
                   user_proofs, leaf_proofs, zktree_height,
                   verify_result, leaf_builds, node_builds>>

\* The barrier at the end of the level: collect()?, extend, the bookkeeping.
Level_Collect ==
    /\ pc = "tasks"
    /\ \A j \in 1..Len(tasks) : tasks[j].res # Pending
    /\ LET extend_(collected) ==
               IF collected.tag = "Ok"
               THEN /\ node_proofs' = node_proofs \o collected.val
                    /\ IF height = 0
                       THEN /\ node_proofs_len' = Len(node_proofs')
                            /\ UNCHANGED start_child_index
                       ELSE /\ start_child_index' = node_proofs_len
                            /\ node_proofs_len' =
                                   node_proofs_len + Pow2(zktree_height - height - 1)
                    /\ height' = height + 1
                    /\ pc' = "level"
                    /\ UNCHANGED result
               ELSE /\ result' = collected
                    /\ pc' = "done"
                    /\ UNCHANGED <<node_proofs, node_proofs_len, start_child_index,
                                   height>>
       IN  extend_(Collect(tasks, saved_error))
    /\ tasks' = <<>>
    /\ saved_error' = None
    /\ UNCHANGED <<common_data, circuit, call_result, debug_assertions,
                   user_proofs, leaf_proofs, zktree_height,
                   verify_result, leaf_builds, node_builds>>

\* The loop is over: Ok(Self { user_proofs, leaf_proofs, node_proofs }).
New_ReturnOk ==
    /\ pc = "level"
    /\ height >= zktree_height
    /\ result' = [tag |-> "Ok"]
    /\ pc' = "done"
    /\ UNCHANGED <<common_data, circuit, call_result, debug_assertions,
                   user_proofs, leaf_proofs, node_proofs,
                   zktree_height, height, start_child_index, node_proofs_len,
                   tasks, saved_error, verify_result, leaf_builds, node_builds>>

\* ZkTree::verify on the tree ZkTree::new returned.
Verify ==
    /\ pc = "done"
    /\ result.tag = "Ok"
    /\ verify_result = NoResult
    /\ verify_result' = ZkTree_verify(user_proofs, node_proofs)
    /\ UNCHANGED <<common_data, circuit, call_result, debug_assertions,
                   user_proofs, leaf_proofs, node_proofs,
                   zktree_height, height, start_child_index, node_proofs_len, pc,
                   tasks, saved_error, result, leaf_builds, node_builds>>

Next ==
    \/ New_Enter
    \/ New_Leaf
    \/ Level_Spawn
    \/ \E j \in 1..Len(tasks) : Task_Run(j)
    \/ \E j \in 1..Len(tasks) : Task_Skip(j)
    \/ Level_Collect
    \/ New_ReturnOk
    \/ Verify

Spec == Init /\ [][Next]_vars

(***************************************************************************)
(* ZkTree::verify as a function of the tree it is called on: any user      *)
(* batch, with any root (a root whose input hash is the cap of some batch, *)
(* with a proof the backend accepts or rejects) or with no node at all.    *)
(***************************************************************************)
VerifyKinds == {circuit_1, circuit_2, circuit_long_inputs}

VerifyBatches == UNION {[1..n -> VerifyKinds] : n \in 0..MaxBatch}

\* The leaves verify hands to MerkleTree::new
input_tree_leaves(users) ==
    [i \in 1..Len(users) |-> flatten(user_public_inputs(users[i]))]

\* The input hashes a root can carry: the caps of the batches
RootInputHashes ==
    {MerkleTree_new(input_tree_leaves(b)).val :
        b \in {x \in VerifyBatches : is_power_of_two(Len(x))}}

\* A root node proof with the given input hash and backend verdict
RootWith(ih, valid) ==
    NodeProof_new(
        ProofData([public_inputs |-> ih \o from_partial(<<>>), valid |-> valid],
                  [digest |-> Digest([circuit |-> "root"]),
                   common |-> [num_public_inputs |-> NUM_PUBLIC_INPUTS,
                               circuit |-> [circuit |-> "root"]]]),
        ih, from_partial(<<>>))

\* The caps of the batches of one user proof
SingleInputHashes ==
    {MerkleTree_new(input_tree_leaves(<<u>>)).val : u \in VerifyKinds}

\* Batches with the inputs of circuit_1 wrapped with other proof data or
\* another declared circuit hash.
RewrappedBatches ==
    {<<undeclared_circuit>>, <<more_public_inputs>>,
     <<undeclared_circuit, more_public_inputs>>, <<circuit_1, undeclared_circuit>>}

\* A leaf proof that was not built from any user proof of the tree.
StrayLeaf ==
    LeafProof_new(from_partial(<<>>), from_partial(<<>>), circuit_2.proof_data)

InitVerify ==
    /\ debug_assertions = FALSE
    /\ common_data = "structure"
    /\ circuit = None
    /\ call_result = NoResult
    /\ user_proofs \in VerifyBatches \cup RewrappedBatches
    /\ leaf_proofs \in {<<>>, <<StrayLeaf>>}
    /\ node_proofs \in {<<>>} \cup
           {<<RootWith(ih, valid)>> : ih \in RootInputHashes, valid \in BOOLEAN} \cup
           {<<RootWith(below, FALSE), RootWith(ih, valid)>> :
               below \in SingleInputHashes, ih \in SingleInputHashes,
               valid \in BOOLEAN}
    /\ zktree_height = 0
    /\ height = 0
    /\ start_child_index = 0
    /\ node_proofs_len = 0
    /\ pc = "done"
    /\ tasks = <<>>
    /\ saved_error = None
    /\ result = [tag |-> "Ok"]
    /\ verify_result = NoResult
    /\ leaf_builds = 0
    /\ node_builds = 0

NextVerify == Verify

SpecVerify == InitVerify /\ [][NextVerify]_vars

(***************************************************************************)
(* Properties.                                                             *)
(***************************************************************************)
\* The two conditions of verify, computed on the tree itself.
RootVerifies ==
    /\ node_proofs # <<>>
    /\ BackendVerify(node_proofs[Len(node_proofs)].proof_data)

CapEqualsRootInputHash ==
    /\ node_proofs # <<>>
    /\ is_power_of_two(Len(user_proofs))
    /\ MerkleTree_new(input_tree_leaves(user_proofs)).val
         = node_proofs[Len(node_proofs)].input_hash

ValidShape == is_power_of_two(Len(user_proofs)) /\ Len(user_proofs) > 1

\* The positions (1-based) of the user proofs the backend rejects.
BadIndices ==
    {i \in 1..Len(user_proofs) : ~BackendVerify(user_proofs[i].proof_data)}

\* The vector the tasks of the current level read their children from.
ChildVec == IF height = 0 THEN leaf_proofs ELSE node_proofs

C3_ShapeError ==
    (pc = "done" /\ ~ValidShape) =>
        /\ result.tag = "Err"
        /\ leaf_builds = 0
        /\ node_builds = 0

\* C4: when ZkTree::new returned Ok on a batch of valid shape, the verify
\* that follows returns Ok, the folded root input hash being the Merkle cap
\* over the raw user inputs.
C4_NewOkThenVerifyOk ==
    (ValidShape /\ verify_result # NoResult) =>
        /\ verify_result.tag = "Ok"
        /\ CapEqualsRootInputHash

\* C4 witness: a tree over eight user proofs of two different circuits was
\* built and verified.
C4_Witness ==
    /\ result.tag = "Ok"
    /\ verify_result.tag = "Ok"
    /\ Len(user_proofs) = 8
    /\ user_proofs[1] # user_proofs[8]

\* C5: after a successful ZkTree::new on n user proofs (n a power of two,
\* n > 1) the tree holds exactly n leaf proofs and n - 1 node proofs.
C5_Counts ==
    (pc = "done" /\ result.tag = "Ok" /\ ValidShape) =>
        /\ Len(leaf_proofs) = Len(user_proofs)
        /\ Len(node_proofs) = Len(user_proofs) - 1

\* C5 witness: a tree of eight leaves and seven nodes.
C5_Witness ==
    /\ pc = "done"
    /\ result.tag = "Ok"
    /\ Len(user_proofs) = 8
    /\ Len(leaf_proofs) = 8
    /\ Len(node_proofs) = 7

\* C6: every node proof a task built from children L = v[i] and R = v[i+1],
\* at every level, has input_hash = H(L.input_hash ++ R.input_hash) and
\* circuit_hash = H(L.circuit_hash ++ V_N ++ R.circuit_hash), V_N the digest
\* of the node's own circuit data, and its proof carries the same two values.
C6_NodeFolding ==
    pc = "tasks" =>
        \A j \in 1..Len(tasks) :
            tasks[j].res.tag = "Ok" =>
                LET folded_(node, L, R) ==
                        /\ node.input_hash
                             = hash_or_noop(input_hash(L) \o input_hash(R))
                        /\ node.circuit_hash
                             = hash_or_noop(circuit_hash(L)
                                            \o node.proof_data.circuit_data.digest
                                            \o circuit_hash(R))
                        /\ node.proof_data.proof_with_pis.public_inputs
                             = node.input_hash \o node.circuit_hash
                IN  folded_(tasks[j].res.val, At(ChildVec, tasks[j].i),
                            At(ChildVec, tasks[j].i + 1))

\* C6 witness: a node of the second level built from two different children.
C6_Witness ==
    /\ pc = "tasks"
    /\ height = 1
    /\ \E j \in 1..Len(tasks) :
          /\ tasks[j].res.tag = "Ok"
          /\ input_hash(At(node_proofs, tasks[j].i))
               # input_hash(At(node_proofs, tasks[j].i + 1))

\* C7: every leaf proof built from user proof u has input_hash =
\* H(flatten(u.inputs)) and circuit_hash = H(V_L ++ u.user_circuit_hash), the
\* leaf circuit's own digest first, both as the proof object reports them
\* and as the leaf circuit witnessed them (its public inputs).
C7_LeafHashes ==
    \A k \in 1..Len(leaf_proofs) :
        LET hashed_(leaf, u) ==
                /\ input_hash(leaf) = hash_or_noop(flatten(u.inputs))
                /\ circuit_hash(leaf)
                     = hash_or_noop(leaf.proof_data.circuit_data.digest
                                    \o u.user_circuit_hash)
                /\ leaf.proof_data.proof_with_pis.public_inputs
                     = hash_or_noop(flatten(u.inputs))
                       \o hash_or_noop(leaf.proof_data.circuit_data.digest
                                       \o u.user_circuit_hash)
        IN  hashed_(leaf_proofs[k], user_proofs[k])

\* C7 witness: two leaves, one of a user proof whose inputs are hashed by the
\* sponge and one whose inputs fit a digest.
C7_Witness ==
    /\ Len(leaf_proofs) = 2
    /\ user_proofs[1] = circuit_long_inputs
    /\ user_proofs[2] = circuit_1

\* C8: the public inputs of every stored leaf proof and node proof are
\* exactly 8 field elements, the first 4 its input_hash and the last 4 its
\* circuit_hash.
C8_PublicInputs ==
    \A p \in {leaf_proofs[k] : k \in 1..Len(leaf_proofs)}
             \cup {node_proofs[k] : k \in 1..Len(node_proofs)} :
        LET eight_(pis) ==
                /\ Len(pis) = NUM_PUBLIC_INPUTS
                /\ SubSeq(pis, 1, NUM_HASH_OUT_ELTS) = input_hash(p)
                /\ SubSeq(pis, NUM_HASH_OUT_ELTS + 1, NUM_PUBLIC_INPUTS)
                     = circuit_hash(p)
        IN  eight_(proof(p).proof_with_pis.public_inputs)

\* C8 witness: a finished tree of four leaves and three nodes.
C8_Witness ==
    /\ pc = "done"
    /\ result.tag = "Ok"
    /\ Len(leaf_proofs) = 4
    /\ Len(node_proofs) = 3

\* C9: a task whose two children have different verifier digests ends with
\* the sibling-digest error, no node circuit having been compiled for it; a
\* task that produced a node proof had children of equal digests.
C9_SiblingDigest ==
    pc = "tasks" =>
        \A j \in 1..Len(tasks) :
            (tasks[j].res.tag \in {"Ok", "Err"}) =>
                LET checked_(t, L, R) ==
                        IF circuit_verifier_digest(L) # circuit_verifier_digest(R)
                        THEN /\ t.res.tag = "Err"
                             /\ t.res.msg
                                  = "Invalid circuit verifier data for node 1 and node 2"
                             /\ t.builds = 0
                        ELSE t.res.tag = "Ok"
                IN  checked_(tasks[j], At(ChildVec, tasks[j].i),
                             At(ChildVec, tasks[j].i + 1))

\* C9 witness: at the second level the two nodes of the first level have
\* different digests and the task has ended with the error: the two node
\* circuits compiled so far are those of the first level.
C9_Witness ==
    /\ pc = "tasks"
    /\ height = 1
    /\ Len(tasks) = 1
    /\ tasks[1].res.tag = "Err"
    /\ node_builds = 2

NodesBelow(n, k) == n - n \div Pow2(k)

\* C11: the levels are strictly sequential under every interleaving.  While
\* a leaf proof is still missing no task of any level exists or has run and
\* no node proof is stored; while the tasks of level k of a tree of valid
\* shape exist (started or not), all n leaf proofs and every node proof of
\* the levels below k are stored, and every task reads its two children
\* from what is stored.
C11_LevelsSequential ==
    /\ Len(leaf_proofs) < Len(user_proofs) =>
           /\ tasks = <<>>
           /\ node_builds = 0
           /\ node_proofs = <<>>
    /\ pc = "tasks" =>
           /\ Len(leaf_proofs) = Len(user_proofs)
           /\ ValidShape =>
                  /\ Len(node_proofs) = NodesBelow(Len(user_proofs), height)
                  /\ \A j \in 1..Len(tasks) : tasks[j].i + 1 < Len(ChildVec)

\* C11 witness: the second level of a tree over eight leaves is under way,
\* its second task has produced its node while its first has not started.
C11_Witness ==
    /\ pc = "tasks"
    /\ Len(user_proofs) = 8
    /\ height = 1
    /\ Len(tasks) = 2
    /\ tasks[1].res = Pending
    /\ tasks[2].res.tag = "Ok"

\* The node vector a sequential fold of the children vector gives: the level
\* over the pairs (2j, 2j + 1) in order, then the levels above it.
RECURSIVE SequentialLevels(_)
SequentialLevels(children) ==
    IF Len(children) <= 1 THEN <<>>
    ELSE LET above_(level) == level \o SequentialLevels(level)
         IN  above_([j \in 1..(Len(children) \div 2) |->
                 NodeProof_new_from_children(children[2 * j - 1],
                                             children[2 * j]).res.val])

\* C12: within a level the node proof of pair position j is stored at offset
\* j of the level's segment, in whatever order the tasks ended.  When a
\* level is collected the node vector keeps what it held and gains, at
\* offset j of the new segment, the proof made by the task of position j,
\* whose children start at index 2j of the level's range; and the node
\* vector of a finished tree (so its root) is the one a sequential fold
\* gives, whatever the interleaving was.
C12_PositionOrder ==
    /\ [][(pc = "tasks" /\ pc' = "level") =>
             /\ Len(node_proofs') = Len(node_proofs) + Len(tasks)
             /\ SubSeq(node_proofs', 1, Len(node_proofs)) = node_proofs
             /\ \A j \in 1..Len(tasks) :
                    /\ tasks[j].i =
                           (IF height = 0 THEN 0 ELSE start_child_index) + 2 * (j - 1)
                    /\ node_proofs'[Len(node_proofs) + j] = tasks[j].res.val
                    /\ tasks[j].res.val = TaskBody(ChildVec, tasks[j].i).res.val]_vars
    /\ []((pc = "done" /\ result.tag = "Ok" /\ ValidShape) =>
             node_proofs = SequentialLevels(leaf_proofs))

\* C12 witness: the first level of a tree over four leaves has been
\* collected and holds two different node proofs, the one of the first pair
\* of leaves at offset 0 and the one of the second pair at offset 1.
C12_Witness ==
    /\ pc = "level"
    /\ height = 1
    /\ Len(user_proofs) = 4
    /\ Len(node_proofs) = 2
    /\ node_proofs[1] # node_proofs[2]
    /\ input_hash(node_proofs[1])
           = hash_or_noop(input_hash(leaf_proofs[1]) \o input_hash(leaf_proofs[2]))
    /\ input_hash(node_proofs[2])
           = hash_or_noop(input_hash(leaf_proofs[3]) \o input_hash(leaf_proofs[4]))

\* The number of levels whose node proofs are all stored: height while the
\* level loop runs, and still height once ZkTree::new has returned.
LevelsStored == height

\* The child at 0-based position c of level k: a leaf proof for level 0,
\* else the node proof at offset c from the start index of level k - 1.
ChildOfLevel(k, c) ==
    IF k = 0 THEN At(leaf_proofs, c)
    ELSE At(node_proofs, NodesBelow(Len(user_proofs), k - 1) + c)

\* C13: on a batch of valid shape, level k holds exactly n / 2^(k+1) node
\* proofs, stored contiguously after the levels below it; node j of level 0
\* is made from leaf proofs 2j and 2j + 1, and node j of level k + 1 from
\* the node proofs at offsets 2j and 2j + 1 from the start index of level k.
\* Between two levels the bookkeeping delimits exactly the level just stored.
C13_Layout ==
    (ValidShape /\ pc \in {"level", "done"} /\ result.tag \in {"none", "Ok"}) =>
        /\ Len(node_proofs) = NodesBelow(Len(user_proofs), LevelsStored)
        /\ (pc = "level" /\ height >= 1) =>
               /\ start_child_index = NodesBelow(Len(user_proofs), height - 1)
               /\ node_proofs_len = NodesBelow(Len(user_proofs), height)
        /\ \A k \in 0..(LevelsStored - 1) :
               \A j \in 0..(Len(user_proofs) \div Pow2(k + 1) - 1) :
                   At(node_proofs, NodesBelow(Len(user_proofs), k) + j)
                       = NodeProof_new_from_children(ChildOfLevel(k, 2 * j),
                                                     ChildOfLevel(k, 2 * j + 1)).res.val

\* C13 witness: a finished tree over eight leaves in two halves of different
\* inputs: levels of 4, 2 and 1 node proofs, the root made from the two
\* nodes of the level below it, which differ.
C13_Witness ==
    /\ pc = "done"
    /\ result.tag = "Ok"
    /\ Len(user_proofs) = 8
    /\ Len(node_proofs) = 7
    /\ node_proofs[5] # node_proofs[6]
    /\ input_hash(node_proofs[7])
           = hash_or_noop(input_hash(node_proofs[5]) \o input_hash(node_proofs[6]))

\* The hash of the inputs of all the leaves under a root: the leaf input
\* hashes folded pairwise, level by level.
RECURSIVE FoldInputHashes(_)
FoldInputHashes(hs) ==
    IF Len(hs) = 1 THEN hs[1]
    ELSE FoldInputHashes([j \in 1..(Len(hs) \div 2) |->
                             hash_or_noop(hs[2 * j - 1] \o hs[2 * j])])

\* C14: after a successful ZkTree::new, root() does not fail and returns the
\* last node proof, the single node of the top level, whose input hash
\* commits to all n leaves.
C14_RootOfTree ==
    (pc = "done" /\ result.tag = "Ok") =>
        /\ ZkTree_root(node_proofs).tag = "Ok"
        /\ ZkTree_root(node_proofs).val = node_proofs[Len(node_proofs)]
        /\ Len(node_proofs) = NodesBelow(Len(user_proofs), zktree_height)
        /\ input_hash(ZkTree_root(node_proofs).val)
               = FoldInputHashes([i \in 1..Len(leaf_proofs) |->
                                     input_hash(leaf_proofs[i])])

\* C15: every proof a tree holds verifies against its own circuit data.
\* Every leaf proof and node proof stored so far passes the backend
\* verifier, and ZkTree::new returns Ok only when every user proof passes
\* it as well.
C15_AllProofsVerify ==
    /\ \A i \in 1..Len(leaf_proofs) : BackendVerify(proof(leaf_proofs[i]))
    /\ \A i \in 1..Len(node_proofs) : BackendVerify(proof(node_proofs[i]))
    /\ \A j \in 1..Len(tasks) :
           tasks[j].res.tag = "Ok" => BackendVerify(proof(tasks[j].res.val))
    /\ result.tag = "Ok" =>
           \A i \in 1..Len(user_proofs) : BackendVerify(proof(user_proofs[i]))

\* C15 witness: ZkTree::new returned a tree over four user proofs of two
\* different circuits' inputs; its 4 + 4 + 3 proofs all verify.
C15_Witness ==
    /\ pc = "done"
    /\ result.tag = "Ok"
    /\ Len(user_proofs) = 4
    /\ user_proofs[1] # user_proofs[2]
    /\ Len(leaf_proofs) = 4
    /\ Len(node_proofs) = 3
    /\ \A i \in 1..3 : BackendVerify(proof(node_proofs[i]))

CircuitLeafProofs ==
    {LeafProof_new_from_user_proof(u).val :
        u \in {circuit_1, circuit_2, circuit_long_inputs}}
CircuitNodeProofs ==
    {NodeProof_new_from_children(l, l).res.val : l \in CircuitLeafProofs}
CircuitChildren ==
    {<<l, r>> : l \in CircuitLeafProofs, r \in CircuitLeafProofs}
        \cup {<<l, r>> : l \in CircuitNodeProofs, r \in CircuitNodeProofs}

\* A fresh circuit object: no digest is cached by new.
FreshCircuits ==
    {[ty |-> "leaf", self |-> LeafCircuit_new(u)] : u \in UserProofKinds}
        \cup {[ty |-> "node", self |-> NodeCircuit_new(p[1], p[2])] :
                  p \in CircuitChildren}

\* What a call leaves in call_result: the method, the kind of circuit,
\* whether a digest was cached when it was called, and what it returned.
CallResult(op, c, out) ==
    [tag |-> "called", op |-> op, ty |-> c.ty,
     cached |-> c.self.verifier_circuit_digest.some, out |-> out]

InitCircuit ==
    /\ debug_assertions = FALSE
    /\ common_data \in CommonDataOutcomes
    /\ circuit \in {Some(c) : c \in FreshCircuits}
    /\ call_result = NoResult
    /\ user_proofs = <<>>
    /\ leaf_proofs = <<>>
    /\ node_proofs = <<>>
    /\ zktree_height = 0
    /\ height = 0
    /\ start_child_index = 0
    /\ node_proofs_len = 0
    /\ pc = "circuit"
    /\ tasks = <<>>
    /\ saved_error = None
    /\ result = NoResult
    /\ verify_result = NoResult
    /\ leaf_builds = 0
    /\ node_builds = 0

tree_vars == <<debug_assertions, common_data, user_proofs, leaf_proofs,
               node_proofs, zktree_height, height, start_child_index,
               node_proofs_len, pc, tasks, saved_error, result, verify_result,
               leaf_builds, node_builds>>

\* compile_and_build(&mut self): the digest is cached in the circuit object.
Circuit_compile_and_build ==
    /\ pc = "circuit"
    /\ circuit.some
    /\ LET cache_(c, built) ==
               /\ call_result' = CallResult("compile_and_build", c,
                                            IF built.tag = "Ok"
                                            THEN Ok(built.val.circuit_data)
                                            ELSE built)
               /\ circuit' = IF built.tag = "Ok"
                             THEN Some([ty |-> c.ty, self |-> built.val.self])
                             ELSE None
       IN  cache_(circuit.val,
                  IF circuit.val.ty = "leaf"
                  THEN LeafCircuit_compile_and_build(circuit.val.self)
                  ELSE NodeCircuit_compile_and_build(circuit.val.self))
    /\ UNCHANGED tree_vars

\* evaluate(&self)
Circuit_evaluate ==
    /\ pc = "circuit"
    /\ circuit.some
    /\ LET call_(c, out) ==
               /\ call_result' = CallResult("evaluate", c, out)
               /\ circuit' = IF out.tag = "Panic" THEN None ELSE circuit
       IN  call_(circuit.val,
                 IF circuit.val.ty = "leaf"
                 THEN Ok(LeafCircuit_evaluate(circuit.val.self))
                 ELSE NodeCircuit_evaluate(circuit.val.self))
    /\ UNCHANGED tree_vars

\* fill(&self, targets, out_targets) with the targets of compile
Circuit_fill ==
    /\ pc = "circuit"
    /\ circuit.some
    /\ LET call_(c, out) ==
               /\ call_result' = CallResult("fill", c, out)
               /\ circuit' = IF out.tag = "Panic" THEN None ELSE circuit
       IN  call_(circuit.val,
                 IF circuit.val.ty = "leaf"
                 THEN LeafCircuit_fill(circuit.val.self)
                 ELSE NodeCircuit_fill(circuit.val.self))
    /\ UNCHANGED tree_vars

\* proof(mut self): consumes the circuit object.
Circuit_proof ==
    /\ pc = "circuit"
    /\ circuit.some
    /\ call_result' = CallResult("proof", circuit.val,
                                 IF circuit.val.ty = "leaf"
                                 THEN LeafCircuit_proof(circuit.val.self)
                                 ELSE NodeCircuit_proof(circuit.val.self))
    /\ circuit' = None
    /\ UNCHANGED tree_vars

NextCircuit ==
    \/ Circuit_compile_and_build
    \/ Circuit_evaluate
    \/ Circuit_fill
    \/ Circuit_proof

SpecCircuit == InitCircuit /\ [][NextCircuit]_vars

\* C17: LeafCircuit::fill on a leaf circuit with no cached digest returns an
\* error value (the unset-digest error) and no witness; with a digest cached
\* it returns a witness, and a successful compile_and_build leaves a circuit
\* on which fill succeeds.
C17_LeafFillUnset ==
    /\ (call_result.tag = "called" /\ call_result.ty = "leaf"
            /\ call_result.op = "fill") =>
           IF call_result.cached
           THEN call_result.out.tag = "Ok"
           ELSE call_result.out
                    = Err("Failed to generate the verifier circuit digest. Please compile the circuit once again")
    /\ (call_result.tag = "called" /\ call_result.ty = "leaf"
            /\ call_result.op = "compile_and_build") =>
           /\ call_result.out.tag = "Ok"
           /\ circuit.some
           /\ circuit.val.self.verifier_circuit_digest
                  = Some(call_result.out.val.digest)
           /\ LeafCircuit_fill(circuit.val.self).tag = "Ok"

\* C17 witness: fill was called on a fresh leaf circuit and returned the
\* error; the circuit object is still there and still has no digest.
C17_Witness ==
    /\ call_result.tag = "called"
    /\ call_result.ty = "leaf"
    /\ call_result.op = "fill"
    /\ ~call_result.cached
    /\ call_result.out.tag = "Err"
    /\ circuit.some
    /\ ~circuit.val.self.verifier_circuit_digest.some

\* C18: NodeCircuit::fill and NodeCircuit::evaluate on a node circuit with
\* no cached digest return an error value, as the leaf circuit does, and do
\* not abort.
C18_NodeFillUnset ==
    (call_result.tag = "called" /\ call_result.ty = "node"
        /\ call_result.op \in {"fill", "evaluate"} /\ ~call_result.cached) =>
        call_result.out.tag = "Err"

\* The compile-and-build calls made by the tasks of the level under way.
RECURSIVE TaskBuilds(_)
TaskBuilds(ts) ==
    IF ts = <<>> THEN 0 ELSE Head(ts).builds + TaskBuilds(Tail(ts))

ProofPublicInputs(u) == proof(u).proof_with_pis.public_inputs

\* The positions (1-based) of the user proofs whose flat inputs have the
\* length of the proof's public inputs but differ from them.
MismatchedIndices ==
    {i \in 1..Len(user_proofs) :
        /\ Len(flatten(user_public_inputs(user_proofs[i])))
               = Len(ProofPublicInputs(user_proofs[i]))
        /\ flatten(user_public_inputs(user_proofs[i]))
               # ProofPublicInputs(user_proofs[i])}

ArityMismatchIndices ==
    {i \in 1..Len(user_proofs) :
        Len(flatten(user_public_inputs(user_proofs[i])))
            # Len(ProofPublicInputs(user_proofs[i]))}

\* C22: when a user proof declares fewer or more public inputs than there
\* are flat inputs, leaf proof generation yields an error value and no leaf,
\* so ZkTree::new on a batch of valid shape returns an error; it does not
\* abort.
C22_ArityError ==
    /\ \A i \in 1..Len(leaf_proofs) : i \notin ArityMismatchIndices
    /\ (pc = "done" /\ ValidShape /\ ArityMismatchIndices # {}) =>
           /\ result.tag = "Err"
           /\ result.at + 1 \in ArityMismatchIndices

(***************************************************************************)
(* NodeProof::new_from_children called directly, on any two values with    *)
(* the Proof capability: proofs built by this library, leaf proofs put      *)
(* together with LeafProof::new, and user proofs.                           *)
(***************************************************************************)
\* A user proof with nine public inputs
circuit_nine_inputs ==
    UserProofOf("circuit_nine",
                <<<<Fe(1), Fe(2), Fe(3), Fe(4), Fe(5), Fe(6), Fe(7), Fe(8), Fe(9)>>>>,
                TRUE)

\* LeafProof::new on the proof data of a real leaf with another input hash,
\* and with another user circuit hash.
ForgedInputHash(leaf) ==
    LeafProof_new(hash_or_noop(<<Fe(9)>>), leaf.user_circuit_hash, proof(leaf))
ForgedCircuitHash(leaf) ==
    LeafProof_new(leaf.hash_user_public_inputs,
                  Digest([circuit |-> "user", name |-> "declared"]), proof(leaf))

ChildKinds ==
    LET kinds_(leaf_1, leaf_2) ==
            {leaf_1, leaf_2,
             NodeProof_new_from_children(leaf_1, leaf_2).res.val,
             ForgedInputHash(leaf_1), ForgedCircuitHash(leaf_1),
             circuit_1, circuit_nine_inputs}
    IN  kinds_(LeafProof_new_from_user_proof(circuit_1).val,
               LeafProof_new_from_user_proof(circuit_2).val)

\* A child the node circuit accepts: exactly 8 public inputs, the input
\* hash followed by the circuit hash its capability methods report.
ChildWellFormed(p) ==
    ProofPublicInputs(p) = input_hash(p) \o circuit_hash(p)

InitChildren ==
    /\ debug_assertions = FALSE
    /\ common_data \in CommonDataOutcomes
    /\ circuit \in {Some([ty |-> "children", left |-> l, right |-> r]) :
                        l \in ChildKinds, r \in ChildKinds}
    /\ call_result = NoResult
    /\ user_proofs = <<>>
    /\ leaf_proofs = <<>>
    /\ node_proofs = <<>>
    /\ zktree_height = 0
    /\ height = 0
    /\ start_child_index = 0
    /\ node_proofs_len = 0
    /\ pc = "children"
    /\ tasks = <<>>
    /\ saved_error = None
    /\ result = NoResult
    /\ verify_result = NoResult
    /\ leaf_builds = 0
    /\ node_builds = 0

\* NodeProof::new_from_children(&left, &right)
Children_new_from_children ==
    /\ pc = "children"
    /\ circuit.some
    /\ call_result = NoResult
    /\ call_result' = [tag |-> "called", op |-> "new_from_children",
                       out |-> NodeProof_new_from_children(circuit.val.left,
                                                           circuit.val.right).res]
    /\ UNCHANGED circuit
    /\ UNCHANGED tree_vars

NextChildren == Children_new_from_children

SpecChildren == InitChildren /\ [][NextChildren]_vars

\* C23: NodeProof::new_from_children produces a node proof only if each
\* child's proof has exactly 8 public inputs equal to the child's input
\* hash followed by its circuit hash; for a child of another arity, or with
\* other public inputs, it returns an error value and produces nothing.
C23_ChildPublicInputs ==
    (call_result.tag = "called" /\ call_result.op = "new_from_children") =>
        /\ call_result.out.tag = "Ok" =>
               /\ ChildWellFormed(circuit.val.left)
               /\ ChildWellFormed(circuit.val.right)
        /\ ~(ChildWellFormed(circuit.val.left) /\ ChildWellFormed(circuit.val.right))
               => call_result.out.tag = "Err"

\* C24: stored proofs are immutable.  No step changes the user proofs; the
\* leaf vector and the node vector only grow by appending, the leaf vector
\* by one leaf, the node vector by one node for each task (adjacent pair) of
\* the level collected; once ZkTree::new has returned, no step, verify
\* included, changes the tree or the result of new, and the result of
\* verify is the one a second call on the tree would give.
C24_Immutable ==
    /\ [][/\ user_proofs' = user_proofs
          /\ Len(leaf_proofs') \in {Len(leaf_proofs), Len(leaf_proofs) + 1}
          /\ SubSeq(leaf_proofs', 1, Len(leaf_proofs)) = leaf_proofs
          /\ Len(node_proofs') \in {Len(node_proofs), Len(node_proofs) + Len(tasks)}
          /\ SubSeq(node_proofs', 1, Len(node_proofs)) = node_proofs
          /\ pc = "done" =>
                 /\ leaf_proofs' = leaf_proofs
                 /\ node_proofs' = node_proofs
                 /\ result' = result
          /\ verify_result # NoResult => verify_result' = verify_result]_vars
    /\ [](verify_result # NoResult =>
             verify_result = ZkTree_verify(user_proofs, node_proofs))

\* C24 witness: verify has run on a tree over eight user proofs, which
\* still holds its eight leaf proofs and seven node proofs.
C24_Witness ==
    /\ verify_result # NoResult
    /\ Len(user_proofs) = 8
    /\ Len(leaf_proofs) = 8
    /\ Len(node_proofs) = 7
    /\ input_hash(leaf_proofs[8]) = input_hash(user_proofs[8])

\* The input hashes of the user proofs first .. first + count - 1 (0-based).
UserInputHashes(ups, first, count) ==
    [i \in 1..count |-> input_hash(At(ups, first + i - 1))]

\* The batch with the user proofs at positions p and q exchanged.
Exchange(ups, p, q) ==
    [i \in 1..Len(ups) |-> IF i = p THEN ups[q] ELSE IF i = q THEN ups[p] ELSE ups[i]]

C27_LoopInvariant ==
    ValidShape =>
        /\ (pc = "level" /\ height >= 1 /\ height < zktree_height) =>
               /\ node_proofs_len = Len(node_proofs)
               /\ node_proofs_len - start_child_index
                      = Len(user_proofs) \div Pow2(height)
               /\ (node_proofs_len - start_child_index) % 2 = 0
               /\ node_proofs_len - start_child_index >= 2
               /\ start_child_index = NodesBelow(Len(user_proofs), height - 1)
        /\ pc = "tasks" =>
               /\ Len(tasks) = Len(user_proofs) \div Pow2(height + 1)
               /\ \A j \in 1..Len(tasks) :
                      /\ tasks[j].i >= 0
                      /\ tasks[j].i + 1 <= Len(ChildVec) - 1
                      /\ height >= 1 =>
                             /\ tasks[j].i >= start_child_index
                             /\ tasks[j].i + 1 <= node_proofs_len - 1
                      /\ tasks[j].res.tag # "Panic"

\* C27 witness: the third iteration on eight user proofs: six node proofs
\* are stored, the range 4 .. 5 is level 1, and the one task reads
\* node_proofs[4] and node_proofs[5].
C27_Witness ==
    /\ pc = "tasks"
    /\ Len(user_proofs) = 8
    /\ height = 2
    /\ start_child_index = 4
    /\ node_proofs_len = 6
    /\ Len(node_proofs) = 6
    /\ Len(tasks) = 1
    /\ tasks[1].i = 4
    /\ tasks[1].res.tag = "Ok"

\* What verify reads of the stored user proofs: their inputs alone.
InputsOnly(users) ==
    [i \in 1..Len(users) |->
        UserProof_new(users[i].inputs, from_partial(<<>>), circuit_2.proof_data)]

\* What verify reads of the node vector: its last element alone.
RootOnly(nodes) == IF nodes = <<>> THEN <<>> ELSE <<nodes[Len(nodes)]>>

\* C28: the outcome of ZkTree::verify is determined by the root node proof
\* and the stored user inputs: it is the outcome on a tree that keeps only
\* the root of the node vector and only the inputs of the user proofs,
\* whatever the leaf proofs, the other node proofs, the user proofs' own
\* proof data and declared hashes are, and whatever circuit the root's
\* verifier digest is the digest of.
C28_VerifyReadsRootAndInputs ==
    verify_result # NoResult =>
        verify_result = ZkTree_verify(InputsOnly(user_proofs), RootOnly(node_proofs))

\* C28 witness: verify returned Ok on a tree holding a leaf proof of no user
\* proof, a node proof below the root that the backend rejects, a user proof
\* of an undeclared circuit, and a root whose verifier digest is the digest
\* of no node circuit.
C28_Witness ==
    /\ verify_result.tag = "Ok"
    /\ leaf_proofs = <<StrayLeaf>>
    /\ Len(node_proofs) = 2
    /\ ~BackendVerify(proof(node_proofs[1]))
    /\ user_proofs = <<undeclared_circuit>>
    /\ circuit_verifier_digest(node_proofs[2]) = Digest([circuit |-> "root"])

\* The positions (1-based) of the user proofs whose declared circuit hash
\* is not the verifier digest of their own proof data.
UndeclaredIndices ==
    {i \in 1..Len(user_proofs) :
        user_proofs[i].user_circuit_hash # user_proofs[i].proof_data.circuit_data.digest}

\* C29: the leaf does not bind the declared user_circuit_hash to the circuit
\* of the wrapped proof.  A user proof whose declared hash differs from the
\* verifier digest of its proof data, but whose proof verifies with the
\* flat inputs as public inputs, is made into a leaf, the leaf's circuit
\* hash is the hash of the leaf digest and the declared value (not of the
\* real digest), and ZkTree::new returns Ok on a batch of circuit_1 proofs
\* with such proofs among them.
C29_DeclaredHashUnbound ==
    /\ \A i \in UndeclaredIndices :
           (/\ BackendVerify(user_proofs[i].proof_data)
            /\ ProofPublicInputs(user_proofs[i]) = flatten(user_proofs[i].inputs))
           => /\ LeafProof_new_from_user_proof(user_proofs[i]).tag = "Ok"
              /\ i <= Len(leaf_proofs) =>
                     /\ circuit_hash(leaf_proofs[i])
                            = hash_or_noop(circuit_verifier_digest(leaf_proofs[i])
                                           \o user_proofs[i].user_circuit_hash)
                     /\ circuit_hash(leaf_proofs[i])
                            # hash_or_noop(circuit_verifier_digest(leaf_proofs[i])
                                           \o user_proofs[i].proof_data.circuit_data.digest)
    /\ (/\ pc = "done"
        /\ ValidShape
        /\ \A i \in 1..Len(user_proofs) :
               user_proofs[i] \in {circuit_1, undeclared_circuit})
       => result.tag = "Ok"

\* C29 witness: ZkTree::new returned Ok on four user proofs the third of
\* which declares a circuit hash that is not the digest of its proof's
\* circuit; its leaf carries a circuit hash made from the declared value.
C29_Witness ==
    /\ pc = "done"
    /\ result.tag = "Ok"
    /\ Len(user_proofs) = 4
    /\ UndeclaredIndices = {3}
    /\ Len(node_proofs) = 3
    /\ circuit_hash(leaf_proofs[3])
           = hash_or_noop(circuit_verifier_digest(leaf_proofs[3])
                          \o Digest([circuit |-> "user", name |-> "declared"]))
    /\ circuit_hash(leaf_proofs[3]) # circuit_hash(leaf_proofs[1])

\* The outcomes of the branches of fill and proof that a missing or stale
\* cached digest leads to.
DigestBranchOutcomes ==
    {Err("Failed to generate the verifier circuit digest. Please compile the circuit once again"),
     Err("Verifier circuit digest is not valid !"),
     Panic("called Option::unwrap() on a None value")}

\* The outcome r of a call without the position ZkTree::new tags an error with.
Untagged(r) == IF r.tag = "Err" THEN Err(r.msg) ELSE r

\* The digest compile_and_build caches in a circuit object, if it returns.
CachedDigest(built) ==
    IF built.tag = "Ok" THEN built.val.self.verifier_circuit_digest ELSE None

\* C30: inside proof, compile_and_build has cached the digest before fill
\* reads it and before it is compared.  So during ZkTree::new no leaf or
\* node construction ends in the digest-unset outcome of fill or in the
\* digest-mismatch error of proof, and for every stored leaf and node proof
\* the digest cached by compile_and_build on its circuit is the digest of
\* the circuit data the proof carries.
C30_DigestCachedBeforeUse ==
    /\ Untagged(result) \notin DigestBranchOutcomes
    /\ \A j \in 1..Len(tasks) : Untagged(tasks[j].res) \notin DigestBranchOutcomes
    /\ \A i \in 1..Len(user_proofs) :
           Untagged(LeafProof_new_from_user_proof(user_proofs[i])) \notin DigestBranchOutcomes
    /\ \A i \in 1..Len(leaf_proofs) :
           CachedDigest(LeafCircuit_compile_and_build(LeafCircuit_new(user_proofs[i])))
               = Some(proof(leaf_proofs[i]).circuit_data.digest)
    /\ (ValidShape /\ pc \in {"level", "done"} /\ result.tag \in {"none", "Ok"}) =>
           \A k \in 0..(LevelsStored - 1) :
               \A j \in 0..(Len(user_proofs) \div Pow2(k + 1) - 1) :
                   CachedDigest(NodeCircuit_compile_and_build(
                                    NodeCircuit_new(ChildOfLevel(k, 2 * j),
                                                    ChildOfLevel(k, 2 * j + 1))))
                       = Some(proof(At(node_proofs,
                                       NodesBelow(Len(user_proofs), k) + j)).circuit_data.digest)

\* C30 witness: a finished tree over four user proofs, one of them of
\* another leaf-circuit shape than its neighbours in the other half: the
\* root's circuit data carries the digest cached when its circuit was built
\* from the two nodes below.
C30_Witness ==
    /\ pc = "done"
    /\ result.tag = "Ok"
    /\ Len(user_proofs) = 4
    /\ Len(node_proofs) = 3
    /\ user_proofs[1] # user_proofs[3]
    /\ CachedDigest(NodeCircuit_compile_and_build(
                        NodeCircuit_new(node_proofs[1], node_proofs[2])))
           = Some(circuit_verifier_digest(node_proofs[3]))

(***************************************************************************)
(* ZkTree::new on batches of valid shape, with a scheduler that keeps       *)
(* going: the calling thread runs its next step, and the thread pool runs   *)
(* or drops a task as long as one is waiting.                               *)
(***************************************************************************)
InitFair ==
    /\ Init
    /\ ValidShape

\* The leaf loop has an iteration left: the guard of New_Leaf, which builds
\* a leaf or stops on its error whatever the user proof is.
New_Leaf_Enabled == pc = "leaves"

\* A task of the level waits for a worker: the guard of Task_Run.
Task_Enabled ==
    /\ pc = "tasks"
    /\ \E j \in 1..Len(tasks) : tasks[j].res = Pending

\* Weak fairness of every step of the calling thread and of the thread
\* pool.  For the two steps that build a proof the fairness condition is
\* written out, with the guard of the step for its enabling condition.
Fairness ==
    /\ WF_vars(New_Enter)
    /\ []<>(~New_Leaf_Enabled) \/ []<><<New_Leaf>>_vars
    /\ WF_vars(Level_Spawn)
    /\ \/ []<>(~Task_Enabled)
       \/ []<><<\E j \in 1..Len(tasks) : Task_Run(j) \/ Task_Skip(j)>>_vars
    /\ WF_vars(Level_Collect)
    /\ WF_vars(New_ReturnOk)

SpecFair == InitFair /\ [][Next]_vars /\ Fairness

====
